---- MODULE Spec2Model ----
(***************************************************************************)
(* A model of the progression/verification engine of the bot:              *)
(*   - bot/controller.py : Controller (the level registry)                 *)
(*   - bot/questions.py  : Question, QuestionView and its subclasses       *)
(* The level registry and the question views do not share state, so each   *)
(* is given its own specification over the same variables:                 *)
(*   SpecController : Controller.add_level / get_level_map / play_level    *)
(*   Spec           : the question views (hints, submissions, quit)        *)
(***************************************************************************)
EXTENDS Integers, Sequences, FiniteSets, Bags, TLC

(***************************************************************************)
(* Bounds of the model.                                                    *)
(***************************************************************************)
MaxLevelId == 2
MaxCoord == 2
MaxHints == 2
MaxTasks == 2
MaxCases == 2
MaxCode == 3
MaxElapsed == 3
MaxMapX == 2

VARIABLES
    levels,         \* Controller.levels: an insertion-ordered dict, id -> Level
    ret,            \* the last Controller call: its arguments and its outcome
    questions,      \* the Question objects, by object identity
    views,          \* the QuestionView objects, in order of creation
    tasks,          \* the view callbacks that are suspended at an await
    last,           \* the step taken last and what it sent to the user
    hint_requests,  \* per question, the number of get_a_hint calls so far
    failed,         \* history: the views one of whose callbacks ended in an error
    factory,        \* the last question_factory call: its argument and its outcome
    harness,        \* the last _get_test_string call: its arguments and its result
    classified,     \* the last output given to check_test, and what it returned
    map             \* the Map view: map_z, Map.position and the last move call

ctlVars == <<levels, ret>>

viewVars == <<questions, views, tasks, last, hint_requests, failed>>

pureVars == <<factory, harness, classified>>

vars ==
    <<levels, ret, questions, views, tasks, last, hint_requests, failed, factory, harness,
      classified, map>>

(***************************************************************************)
(* Level objects (the Level collaborator): the registry reads their id and *)
(* map_position and calls their run(); name tells apart two Level objects  *)
(* that carry the same id and position.                                    *)
(***************************************************************************)
LevelIds == 1..MaxLevelId

Positions == {<<x, 0>> : x \in 0..MaxCoord}

LevelNames == {"A", "B"}

Level == [id : LevelIds, map_position : Positions, name : LevelNames]

(***************************************************************************)
(* Python's dict, as Controller uses it: a sequence of entries in          *)
(* insertion order; assigning to a present key replaces the value in       *)
(* place, assigning to an absent key appends an entry.                     *)
(***************************************************************************)
DictHas(d, k) == \E i \in 1..Len(d) : d[i].key = k

DictValues(d) == [i \in 1..Len(d) |-> d[i].value]

DictSet(d, k, v) ==
    IF DictHas(d, k)
    THEN [i \in 1..Len(d) |-> IF d[i].key = k THEN [key |-> k, value |-> v] ELSE d[i]]
    ELSE Append(d, [key |-> k, value |-> v])

(***************************************************************************)
(* Controller.add_level: the two guards and the insertion.                 *)
(***************************************************************************)
IdTakenNever(d, level) == FALSE

IdTaken(d, level) == DictHas(d, level.id)

PositionTakenNever(d, level) == FALSE

PositionTaken(d, level) ==
    \E i \in 1..Len(DictValues(d)) : DictValues(d)[i].map_position = level.map_position

Call(op) ==
    [op |-> op, level |-> <<>>, position |-> <<>>, use_level |-> 0,
     outcome |-> "ok", msg |-> "", value |-> <<>>, ran |-> <<>>]

add_level(level) ==
    IF IdTaken(levels, level)
    THEN /\ ret' = [Call("add_level") EXCEPT !.level = <<level>>,
                        !.outcome = "ValueError", !.msg = "User has completed the level"]
         /\ UNCHANGED levels
    ELSE IF PositionTaken(levels, level)
    THEN /\ ret' = [Call("add_level") EXCEPT !.level = <<level>>, !.outcome = "ValueError"]
         /\ UNCHANGED levels
    ELSE /\ levels' = DictSet(levels, level.id, level)
         /\ ret' = [Call("add_level") EXCEPT !.level = <<level>>]

(***************************************************************************)
(* Controller.get_level_map: the first value, in dict order, at position.  *)
(***************************************************************************)
FirstAtAny(d, position) == IF Len(d) = 0 THEN 0 ELSE 1

FirstAt(d, position) ==
    IF \E i \in 1..Len(d) : DictValues(d)[i].map_position = position
    THEN CHOOSE i \in 1..Len(d) :
            /\ DictValues(d)[i].map_position = position
            /\ \A j \in 1..(i - 1) : DictValues(d)[j].map_position # position
    ELSE 0

get_level_map(position) ==
    /\ ret' = IF FirstAt(levels, position) # 0
              THEN [Call("get_level_map") EXCEPT !.position = <<position>>,
                        !.value = <<DictValues(levels)[FirstAt(levels, position)]>>]
              ELSE [Call("get_level_map") EXCEPT !.position = <<position>>,
                        !.outcome = "ValueError"]
    /\ UNCHANGED levels

(***************************************************************************)
(* Controller.play_level: run(use_level) is called on every value of the   *)
(* dict, in dict order; ran lists the levels whose run was called.         *)
(***************************************************************************)
play_level(use_level) ==
    /\ ret' = [Call("play_level") EXCEPT !.use_level = use_level,
                    !.ran = DictValues(levels)]
    /\ UNCHANGED levels

\* Controller(): no question is involved
ControllerInit ==
    /\ levels = <<>>
    /\ ret = Call("__init__")
    /\ questions = <<>>
    /\ views = <<>>
    /\ tasks = <<>>
    /\ last = <<>>
    /\ hint_requests = <<>>
    /\ failed = {}
    /\ factory = <<>>
    /\ harness = <<>>
    /\ classified = <<>>
    /\ map = <<>>

AddLevel == (\E level \in Level : add_level(level)) /\ UNCHANGED <<viewVars, pureVars, map>>

GetLevelMap ==
    /\ (\E position \in Positions : get_level_map(position))
    /\ UNCHANGED <<viewVars, pureVars, map>>

PlayLevel ==
    /\ (\E use_level \in LevelIds : play_level(use_level))
    /\ UNCHANGED <<viewVars, pureVars, map>>

ControllerNext == AddLevel \/ GetLevelMap \/ PlayLevel

SpecController == ControllerInit /\ [][ControllerNext]_vars

(***************************************************************************)
(* bot/questions.py                                                        *)
(*                                                                         *)
(* Texts are sequences of one-character strings.  check_test is the        *)
(* compiled pattern  Ran 1 test in \S+s\n\nOK\n$  and check_test_search    *)
(* is bool(check_test.search(output)): the pattern may start anywhere, \S+ *)
(* is one or more characters that are not whitespace, and $ matches at the *)
(* end of the text and also just before a newline that ends the text.      *)
(***************************************************************************)
CheckTestPrefix ==
    <<"R", "a", "n", " ", "1", " ", "t", "e", "s", "t", " ", "i", "n", " ">>

CheckTestSuffix ==
    <<"s", "\n", "\n", "O", "K", "\n">>

Whitespace == {" ", "\t", "\n", "\r", "\f"}

IsAt(text, i, literal) ==
    /\ i + Len(literal) - 1 <= Len(text)
    /\ \A k \in 1..Len(literal) : text[i + k - 1] = literal[k]

AtEndOnly(text, e) == e = Len(text)

AtEnd(text, e) == e = Len(text) \/ (e = Len(text) - 1 /\ text[Len(text)] = "\n")

check_test_search(output) ==
    \E i \in 1..Len(output) :
        /\ IsAt(output, i, CheckTestPrefix)
        /\ \E n \in 1..Len(output) :
              /\ \A k \in 1..n :
                    /\ i + Len(CheckTestPrefix) + k - 1 <= Len(output)
                    /\ output[i + Len(CheckTestPrefix) + k - 1] \notin Whitespace
              /\ IsAt(output, i + Len(CheckTestPrefix) + n, CheckTestSuffix)
              /\ AtEnd(output, i + Len(CheckTestPrefix) + n + Len(CheckTestSuffix) - 1)

(***************************************************************************)
(* What eval_python can hand back to WriteCodeQuestion.check_response: the *)
(* captured output of a run (unittest's report of one passing test, or of  *)
(* one failing test), or an error raised because the evaluation service    *)
(* could not be reached.                                                   *)
(***************************************************************************)
OutputOK ==
    <<".", "\n", "R", "a", "n", " ", "1", " ", "t", "e", "s", "t", " ", "i",
      "n", " ", "0", ".", "0", "0", "4", "s", "\n", "\n", "O", "K", "\n">>

OutputFailed ==
    <<"F", "\n", "R", "a", "n", " ", "1", " ", "t", "e", "s", "t", " ", "i",
      "n", " ", "0", ".", "0", "0", "4", "s", "\n", "\n", "F", "A", "I", "L",
      "E", "D", " ", "(", "f", "a", "i", "l", "u", "r", "e", "s", "=", "1",
      ")", "\n">>

EvalOutputs == {OutputOK, OutputFailed}

(***************************************************************************)
(* Question objects.  MultipleChoiceQuestion.__init__ and                  *)
(* WriteCodeQuestion.__init__ set unlocked_hints to 0.  A hint text is     *)
(* written as its number in the hints list.                                *)
(***************************************************************************)
Hints(h) == [k \in 1..h |-> k]

Options == <<[key |-> "a", value |-> "4"], [key |-> "b", value |-> "5"]>>

OptionIds == {Options[k].key : k \in 1..Len(Options)}

MultipleChoiceQuestion(question, hints, options, answer) ==
    [type |-> "multiple_choice", question |-> question, hints |-> hints,
     unlocked_hints |-> 0, options |-> options, answer |-> answer]

WriteCodeQuestion(question, hints, test_cases, pre_code) ==
    [type |-> "write_code", question |-> question, hints |-> hints,
     pre_code |-> pre_code, unlocked_hints |-> 0, test_cases |-> test_cases]

MultipleChoiceQuestion_check_response_listed(q, response) ==
    \E i \in 1..Len(q.options) : q.options[i].key = response

MultipleChoiceQuestion_check_response(q, response) == response = q.answer

(***************************************************************************)
(* QuestionView objects.  stopped is discord's View.is_finished(): once    *)
(* stop() was called the view receives no further button clicks.           *)
(***************************************************************************)
QuestionView(q) ==
    [question |-> q, status |-> "IN_PROGRESS", next_question_interaction |-> "None",
     stopped |-> FALSE]

stop(view) == [view EXCEPT !.stopped = TRUE]

on_quit_if_in_progress(view, interaction) ==
    IF view.status = "IN_PROGRESS"
    THEN [view EXCEPT !.status = "EXITED", !.next_question_interaction = interaction]
    ELSE [view EXCEPT !.next_question_interaction = interaction]

on_quit(view, interaction) ==
    [view EXCEPT !.status = "EXITED", !.next_question_interaction = interaction]

on_success(view, interaction) ==
    [view EXCEPT !.status = "CORRECT", !.next_question_interaction = interaction]

on_fail_accepts(view) == [view EXCEPT !.status = "CORRECT"]

on_fail_resets(view) == [view EXCEPT !.status = "IN_PROGRESS"]

on_fail_silent(view) == view

on_fail(view) == [view EXCEPT !.status = "INCORRECT"]

(***************************************************************************)
(* Interactions and callbacks.  Each button click is one discord           *)
(* interaction and starts one callback.  tasks is the bag of the callbacks *)
(* that are suspended at an await: the view they belong to and pc, the     *)
(* await.  An interaction is named by the component it came from: the      *)
(* button pressed or, for modal.submit_interaction, the CodeModal ("None"  *)
(* stands for None).  last describes the step taken last: the callback     *)
(* that ran, its view, what check_response returned and what was sent      *)
(* through interaction.response.                                           *)
(***************************************************************************)
NoResponse == [kind |-> "none", content |-> "", unlocked |-> 0, hints |-> <<>>]

Deferred == [NoResponse EXCEPT !.kind = "defer"]

ModalSent == [NoResponse EXCEPT !.kind = "send_modal", !.content = "Submit code"]

IncorrectMessage ==
    [NoResponse EXCEPT !.kind = "send_message",
                       !.content = "Incorrect answer. Please try again."]

\* Python's seq[:n] for n >= 0
Slice(seq, n) == SubSeq(seq, 1, IF n < Len(seq) THEN n ELSE Len(seq))

HintsMessage(q) ==
    [kind |-> "send_message", content |-> "### Hints", unlocked |-> q.unlocked_hints,
     hints |-> Slice(q.hints, q.unlocked_hints)]

\* The model follows two views of one question: the least number that shows
\* what views of the same Question object share.
ViewNames == {"first", "second"}

\* get_a_hint is followed until one request more than the longest hints list.
MaxRequests == MaxHints + 1

Task(v, button, pc) == [view |-> v, button |-> button, pc |-> pc]

Room == BagCardinality(tasks) < MaxTasks

Suspended == BagToSet(tasks)

Start(t) == tasks (+) SetToBag({t})

Finish(t) == tasks (-) SetToBag({t})

Step(action, v, result, response) ==
    [action |-> action, view |-> v, result |-> result, response |-> response]

Accepts(v) ==
    /\ v \in 1..Len(views)
    /\ ~views[v].stopped

\* Question.view
view(q) ==
    /\ Len(views) < Cardinality(ViewNames)
    /\ questions[q].type \in {"multiple_choice", "write_code"}
    /\ views' = Append(views, QuestionView(q))
    /\ last' = Step("view", Len(views) + 1, "", NoResponse)
    /\ UNCHANGED <<questions, tasks, hint_requests>>

\* QuestionView.get_a_hint
unlock_always(unlocked_hints, hints) == unlocked_hints + 1

unlock(unlocked_hints, hints) ==
    IF unlocked_hints < Len(hints) THEN unlocked_hints + 1 ELSE unlocked_hints

get_a_hint_consumes(v) ==
    /\ Accepts(v)
    /\ hint_requests[views[v].question] < MaxRequests
    /\ LET q == views[v].question
           shown == [questions[q] EXCEPT !.unlocked_hints = unlock(@, questions[q].hints)]
           unlocked == [shown EXCEPT !.hints = IF @ = <<>> THEN @ ELSE Tail(@)]
       IN /\ questions' = [questions EXCEPT ![q] = unlocked]
          /\ hint_requests' = [hint_requests EXCEPT ![q] = @ + 1]
          /\ last' = Step("get_a_hint", v, "", HintsMessage(shown))
    /\ UNCHANGED <<views, tasks>>

get_a_hint(v) ==
    /\ Accepts(v)
    /\ hint_requests[views[v].question] < MaxRequests
    /\ LET q == views[v].question
           unlocked == [questions[q] EXCEPT !.unlocked_hints = unlock(@, questions[q].hints)]
       IN /\ questions' = [questions EXCEPT ![q] = unlocked]
          /\ hint_requests' = [hint_requests EXCEPT ![q] = @ + 1]
          /\ last' = Step("get_a_hint", v, "", HintsMessage(unlocked))
    /\ UNCHANGED <<views, tasks>>

\* QuestionView.quit_button, up to the await of response.defer() in on_quit
quit_button(v) ==
    /\ Accepts(v)
    /\ Room
    /\ views' = [views EXCEPT ![v] = on_quit(@, "quit_button")]
    /\ tasks' = Start(Task(v, "quit_button", "on_quit_defer"))
    /\ last' = Step("quit_button", v, "", NoResponse)
    /\ UNCHANGED <<questions, hint_requests>>

\* QuestionView.on_quit, from the return of response.defer()
on_quit_resume(t) ==
    /\ t.pc = "on_quit_defer"
    /\ views' = [views EXCEPT ![t.view] = stop(@)]
    /\ tasks' = Finish(t)
    /\ last' = Step("on_quit", t.view, "", Deferred)
    /\ UNCHANGED <<questions, hint_requests>>

\* The callback of an option button of MultipleChoiceQuestionView
option_callback(v, option_id) ==
    /\ Accepts(v)
    /\ Room
    /\ questions[views[v].question].type = "multiple_choice"
    /\ IF MultipleChoiceQuestion_check_response(questions[views[v].question], option_id)
       THEN /\ views' = [views EXCEPT ![v] = on_success(@, "option")]
            /\ tasks' = Start(Task(v, "option", "on_success_defer"))
            /\ last' = Step("callback", v, "True", NoResponse)
       ELSE /\ views' = [views EXCEPT ![v] = on_fail(@)]
            /\ tasks' = tasks
            /\ last' = Step("callback", v, "False", IncorrectMessage)
    /\ UNCHANGED <<questions, hint_requests>>

\* WriteCodeQuestionView.submit_button, up to the await of modal.wait()
submit_button(v) ==
    /\ Accepts(v)
    /\ Room
    /\ questions[views[v].question].type = "write_code"
    /\ tasks' = Start(Task(v, "submit_button", "modal_wait"))
    /\ last' = Step("submit_button", v, "", ModalSent)
    /\ UNCHANGED <<questions, views, hint_requests>>

\* CodeModal.on_submit, then submit_button up to the await of eval_python in
\* WriteCodeQuestion.check_response
modal_submitted(t) ==
    /\ t.pc = "modal_wait"
    /\ tasks' = Finish(t) (+) SetToBag({[t EXCEPT !.pc = "eval_python"]})
    /\ last' = Step("on_submit", t.view, "", NoResponse)
    /\ UNCHANGED <<questions, views, hint_requests>>

modal_closed_records(t) ==
    /\ t.pc = "modal_wait"
    /\ views' = [views EXCEPT ![t.view] = stop(on_quit(@, "submit_button"))]
    /\ tasks' = Finish(t)
    /\ last' = Step("submit_button", t.view, "None", NoResponse)
    /\ UNCHANGED <<questions, hint_requests>>

\* submit_button when the modal finished with submit_interaction None
modal_closed(t) ==
    /\ t.pc = "modal_wait"
    /\ views' = [views EXCEPT ![t.view] = stop([@ EXCEPT !.status = "EXITED"])]
    /\ tasks' = Finish(t)
    /\ last' = Step("submit_button", t.view, "None", NoResponse)
    /\ UNCHANGED <<questions, hint_requests>>

\* eval_python returned: the rest of check_response, then on_success up to
\* the await of response.defer(), or on_fail
eval_python_returned(t, output) ==
    /\ t.pc = "eval_python"
    /\ IF check_test_search(output)
       THEN /\ views' = [views EXCEPT ![t.view] = on_success(@, "CodeModal")]
            /\ tasks' = Finish(t) (+) SetToBag({[t EXCEPT !.pc = "on_success_defer"]})
            /\ last' = Step("check_response", t.view, "True", NoResponse)
       ELSE /\ views' = [views EXCEPT ![t.view] = on_fail(@)]
            /\ tasks' = Finish(t)
            /\ last' = Step("check_response", t.view, "False", IncorrectMessage)
    /\ UNCHANGED <<questions, hint_requests>>

eval_python_raised_stops(t) ==
    /\ t.pc = "eval_python"
    /\ views' = [views EXCEPT ![t.view] = stop(@)]
    /\ tasks' = Finish(t)
    /\ last' = Step("check_response", t.view, "raised", NoResponse)
    /\ UNCHANGED <<questions, hint_requests>>

\* eval_python raised: the error leaves check_response and submit_button
eval_python_raised_as_incorrect(t) ==
    /\ t.pc = "eval_python"
    /\ views' = [views EXCEPT ![t.view] = on_fail(@)]
    /\ tasks' = Finish(t)
    /\ last' = Step("check_response", t.view, "raised", IncorrectMessage)
    /\ UNCHANGED <<questions, hint_requests>>

eval_python_raised(t) ==
    /\ t.pc = "eval_python"
    /\ tasks' = Finish(t)
    /\ last' = Step("check_response", t.view, "raised", NoResponse)
    /\ UNCHANGED <<questions, views, hint_requests>>

\* QuestionView.on_success, from the return of response.defer()
on_success_resume(t) ==
    /\ t.pc = "on_success_defer"
    /\ views' = [views EXCEPT ![t.view] = stop(@)]
    /\ tasks' = Finish(t)
    /\ last' = Step("on_success", t.view, "", Deferred)
    /\ UNCHANGED <<questions, hint_requests>>

QuestionObjects ==
    {MultipleChoiceQuestion("What is 2 + 2?", Hints(h), Options, answer) :
        h \in 0..MaxHints, answer \in OptionIds}
    \cup {WriteCodeQuestion("Write add.", Hints(h),
                <<[input |-> "add(1, 2)", output |-> "3"]>>, <<>>) : h \in 0..MaxHints}

\* One Question object, no view of it yet; the Controller is not involved
Init ==
    /\ levels = <<>>
    /\ ret = Call("__init__")
    /\ \E q \in QuestionObjects : questions = <<q>>
    /\ views = <<>>
    /\ tasks = EmptyBag
    /\ last = Step("", 0, "", NoResponse)
    /\ hint_requests = <<0>>
    /\ failed = {}
    /\ factory = <<>>
    /\ harness = <<>>
    /\ classified = <<>>
    /\ map = <<>>

View == (\E q \in 1..Len(questions) : view(q)) /\ UNCHANGED <<ctlVars, pureVars, map, failed>>

GetAHint ==
    /\ (\E v \in 1..Len(views) : get_a_hint(v))
    /\ UNCHANGED <<ctlVars, pureVars, map, failed>>

QuitButton ==
    /\ (\E v \in 1..Len(views) : quit_button(v))
    /\ UNCHANGED <<ctlVars, pureVars, map, failed>>

OnQuitResume ==
    /\ (\E t \in Suspended : on_quit_resume(t))
    /\ UNCHANGED <<ctlVars, pureVars, map, failed>>

OptionCallback ==
    (\E v \in 1..Len(views), option_id \in OptionIds : option_callback(v, option_id))
    /\ UNCHANGED <<ctlVars, pureVars, map, failed>>

SubmitButton ==
    /\ (\E v \in 1..Len(views) : submit_button(v))
    /\ UNCHANGED <<ctlVars, pureVars, map, failed>>

ModalSubmitted ==
    /\ (\E t \in Suspended : modal_submitted(t))
    /\ UNCHANGED <<ctlVars, pureVars, map, failed>>

ModalClosed ==
    /\ (\E t \in Suspended : modal_closed(t))
    /\ UNCHANGED <<ctlVars, pureVars, map, failed>>

EvalPythonReturned ==
    (\E t \in Suspended, output \in EvalOutputs : eval_python_returned(t, output))
    /\ UNCHANGED <<ctlVars, pureVars, map, failed>>

EvalPythonRaised ==
    /\ (\E t \in Suspended : eval_python_raised(t))
    /\ UNCHANGED <<ctlVars, pureVars, map, failed>>

OnSuccessResume ==
    /\ (\E t \in Suspended : on_success_resume(t))
    /\ UNCHANGED <<ctlVars, pureVars, map, failed>>

Next ==
    \/ View
    \/ GetAHint
    \/ QuitButton
    \/ OnQuitResume
    \/ OptionCallback
    \/ SubmitButton
    \/ ModalSubmitted
    \/ ModalClosed
    \/ EvalPythonReturned
    \/ EvalPythonRaised
    \/ OnSuccessResume

Spec == Init /\ [][Next]_vars

(***************************************************************************)
(* The views of one WriteCodeQuestion, with the history of the callbacks   *)
(* that an error of eval_python ended: the same steps as above, and        *)
(* failed records the view of each such callback.  The hint button plays   *)
(* no part in a submission and is left unpressed here.                     *)
(***************************************************************************)
WriteCodeObjects == {q \in QuestionObjects : q.type = "write_code"}

WriteCodeInit ==
    /\ levels = <<>>
    /\ ret = Call("__init__")
    /\ \E q \in WriteCodeObjects : questions = <<q>>
    /\ views = <<>>
    /\ tasks = EmptyBag
    /\ last = Step("", 0, "", NoResponse)
    /\ hint_requests = <<0>>
    /\ failed = {}
    /\ factory = <<>>
    /\ harness = <<>>
    /\ classified = <<>>
    /\ map = <<>>

EvalPythonRaisedNoted ==
    /\ \E t \in Suspended : eval_python_raised(t) /\ failed' = failed \cup {t.view}
    /\ UNCHANGED <<ctlVars, pureVars, map>>

WriteCodeNext ==
    \/ View
    \/ QuitButton
    \/ OnQuitResume
    \/ SubmitButton
    \/ ModalSubmitted
    \/ ModalClosed
    \/ EvalPythonReturned
    \/ EvalPythonRaisedNoted
    \/ OnSuccessResume

SpecWriteCode == WriteCodeInit /\ [][WriteCodeNext]_vars

(***************************************************************************)
(* question_factory.  Its argument question_data is a dict of keyword      *)
(* arguments: a function from the keys that are present to their values.   *)
(* None is the value None, which no text equals.  A call of a constructor  *)
(* with keyword arguments raises TypeError when a parameter without a      *)
(* default gets no argument or when a keyword names no parameter;          *)
(* dict.pop(key) raises KeyError when the key is absent.                   *)
(***************************************************************************)
None == <<"None">>

Keys == {"type", "question", "hints", "options", "answer", "test_cases", "pre_code"}

TypeTags == {"multiple_choice", "write_code", "essay"}

FieldValue(key) ==
    CASE key = "question" -> "Write add."
      [] key = "hints" -> Hints(1)
      [] key = "options" -> Options
      [] key = "answer" -> "a"
      [] key = "test_cases" -> <<[input |-> "add(1, 2)", output |-> "3"]>>
      [] key = "pre_code" -> <<>>

QuestionData ==
    {[key \in present |-> IF key = "type" THEN tag ELSE FieldValue(key)] :
        present \in SUBSET Keys, tag \in TypeTags}

Get(data, key) == IF key \in DOMAIN data THEN data[key] ELSE None

Pop(data, key) == [k \in DOMAIN data \ {key} |-> data[k]]

Returned(value) == [raised |-> "None", value |-> value]

Raised(error) == [raised |-> error, value |-> None]

\* The constructor call of MultipleChoiceQuestion or WriteCodeQuestion with
\* the keyword arguments kwargs
Construct(required, optional, kwargs, object) ==
    IF required \subseteq DOMAIN kwargs /\ DOMAIN kwargs \subseteq required \cup optional
    THEN Returned(object)
    ELSE Raised("TypeError")

question_factory(question_data) ==
    LET question_type == Get(question_data, "type")
        kwargs == Pop(question_data, "type")
    IN IF "type" \notin DOMAIN question_data THEN Raised("KeyError")
       ELSE CASE question_type = "multiple_choice" ->
                    Construct({"question", "hints", "options", "answer"}, {}, kwargs,
                        MultipleChoiceQuestion(Get(kwargs, "question"), Get(kwargs, "hints"),
                            Get(kwargs, "options"), Get(kwargs, "answer")))
              [] question_type = "write_code" ->
                    Construct({"question", "hints", "test_cases"}, {"pre_code"}, kwargs,
                        WriteCodeQuestion(Get(kwargs, "question"), Get(kwargs, "hints"),
                            Get(kwargs, "test_cases"), Get(kwargs, "pre_code")))
              [] OTHER -> Raised("ValueError")

\* No call of question_factory yet
FactoryInit ==
    /\ levels = <<>>
    /\ ret = Call("__init__")
    /\ questions = <<>>
    /\ views = <<>>
    /\ tasks = <<>>
    /\ last = <<>>
    /\ hint_requests = <<>>
    /\ failed = {}
    /\ factory = [op |-> "", question_data |-> <<>>, result |-> Returned(None)]
    /\ harness = <<>>
    /\ classified = <<>>
    /\ map = <<>>

QuestionFactory ==
    /\ \E question_data \in QuestionData :
          factory' = [op |-> "question_factory", question_data |-> question_data,
                      result |-> question_factory(question_data)]
    /\ UNCHANGED <<ctlVars, viewVars, harness, classified, map>>

SpecFactory == FactoryInit /\ [][QuestionFactory]_vars

(***************************************************************************)
(* WriteCodeQuestion._get_test_string and _get_assert_equal_string (here   *)
(* without the leading underscore).  A text is a sequence of characters;   *)
(* the literals below are those of the return statements.                  *)
(***************************************************************************)
ImportLine ==
    <<"i", "m", "p", "o", "r", "t", " ", "u", "n", "i", "t", "t", "e", "s",
      "t", "\n">>

ClassLine ==
    <<"\n", "c", "l", "a", "s", "s", " ", "T", "e", "s", "t", "(", "u",
      "n", "i", "t", "t", "e", "s", "t", ".", "T", "e", "s", "t", "C", "a",
      "s", "e", ")", ":", "\n">>

MethodLine ==
    <<" ", "d", "e", "f", " ", "t", "e", "s", "t", "_", "c", "a", "s", "e",
      "s", "(", "s", "e", "l", "f", ")", ":">>

Indentation == <<"\n", " ", " ">>

MainLine ==
    <<"\n", "u", "n", "i", "t", "t", "e", "s", "t", ".", "m", "a", "i",
      "n", "(", ")">>

AssertEqualOpen ==
    <<"s", "e", "l", "f", ".", "a", "s", "s", "e", "r", "t", "E", "q", "u",
      "a", "l", "(">>

get_assert_equal_string_as_equality(input, output) ==
    <<"a", "s", "s", "e", "r", "t", "E", "q", "u", "a", "l", "i", "t", "y",
      "(">>
        \o input \o <<",", " ">> \o output \o <<")">>

get_assert_equal_string(input, output) ==
    AssertEqualOpen \o input \o <<",">> \o output \o <<")">>

\* str.expandtabs(tabsize): column counts the characters written since the
\* last line break; a tab becomes the spaces up to the next multiple of
\* tabsize.
Spaces(n) == [k \in 1..n |-> " "]

RECURSIVE ExpandFrom(_, _, _, _)
ExpandFrom(text, tabsize, i, column) ==
    IF i > Len(text) THEN <<>>
    ELSE IF text[i] = "\t"
         THEN LET incr == tabsize - (column % tabsize)
              IN Spaces(incr) \o ExpandFrom(text, tabsize, i + 1, column + incr)
         ELSE IF text[i] \in {"\n", "\r"}
              THEN <<text[i]>> \o ExpandFrom(text, tabsize, i + 1, 0)
              ELSE <<text[i]>> \o ExpandFrom(text, tabsize, i + 1, column + 1)

RECURSIVE expandtabs_each(_, _)
expandtabs_each(text, tabsize) ==
    IF text = <<>> THEN <<>>
    ELSE (IF Head(text) = "\t" THEN Spaces(tabsize) ELSE <<Head(text)>>)
            \o expandtabs_each(Tail(text), tabsize)

expandtabs(text, tabsize) == ExpandFrom(text, tabsize, 1, 0)

\* separator.join(strings)
RECURSIVE join_reversed(_, _)
join_reversed(separator, strings) ==
    IF strings = <<>> THEN <<>>
    ELSE IF Len(strings) = 1 THEN strings[1]
         ELSE join_reversed(separator, Tail(strings)) \o separator \o Head(strings)

RECURSIVE join(_, _)
join(separator, strings) ==
    IF strings = <<>> THEN <<>>
    ELSE IF Len(strings) = 1 THEN strings[1]
         ELSE Head(strings) \o separator \o join(separator, Tail(strings))

\* the loop over self.test_cases
test_strings(q) ==
    [k \in 1..Len(q.test_cases) |->
        get_assert_equal_string(q.test_cases[k].input, q.test_cases[k].output)]

get_test_string_code_first(q, user_code) ==
    ImportLine
    \o expandtabs(user_code, 2)
    \o (IF q.pre_code = None THEN <<>> ELSE q.pre_code)
    \o ClassLine
    \o MethodLine
    \o Indentation
    \o join(Indentation, test_strings(q))
    \o MainLine

get_test_string(q, user_code) ==
    ImportLine
    \o (IF q.pre_code = None THEN <<>> ELSE q.pre_code)
    \o expandtabs(user_code, 2)
    \o ClassLine
    \o MethodLine
    \o Indentation
    \o join(Indentation, test_strings(q))
    \o MainLine

(***************************************************************************)
(* The inputs of _get_test_string: questions with and without pre_code and *)
(* with up to MaxCases test cases, and submitted codes of up to MaxCode    *)
(* characters, tabs and line breaks among them, next to the code           *)
(*   def add(a,b): return a+b                                              *)
(***************************************************************************)
AddCode ==
    <<"d", "e", "f", " ", "a", "d", "d", "(", "a", ",", "b", ")", ":", " ",
      "r", "e", "t", "u", "r", "n", " ", "a", "+", "b">>

AddCase ==
    [input |-> <<"a", "d", "d", "(", "1", ",", "2", ")">>, output |-> <<"3">>]

NameCase ==
    [input |-> <<"f", "(", "2", ")">>, output |-> <<"'", "a", "'">>]

TestCases == {AddCase, NameCase}

TestCaseLists == UNION {[1..n -> TestCases] : n \in 0..MaxCases}

PreCodes == {None, <<"y", "=">>, <<"i", "\n">>}

CodeChars == {"x", "\t", "\n"}

UserCodes == {AddCode} \cup UNION {[1..n -> CodeChars] : n \in 0..MaxCode}

HarnessQuestions ==
    {WriteCodeQuestion("Write add.", Hints(0), test_cases, pre_code) :
        test_cases \in TestCaseLists, pre_code \in PreCodes}

NotBuilt == [op |-> "", user_code |-> <<>>, result |-> <<>>, earlier |-> None]

\* One WriteCodeQuestion, no harness built for it yet
HarnessInit ==
    /\ levels = <<>>
    /\ ret = Call("__init__")
    /\ \E q \in HarnessQuestions : questions = <<q>>
    /\ views = <<>>
    /\ tasks = <<>>
    /\ last = <<>>
    /\ hint_requests = <<0>>
    /\ failed = {}
    /\ factory = <<>>
    /\ harness = NotBuilt
    /\ classified = <<>>
    /\ map = <<>>

\* A call of _get_test_string(user_code); earlier is what the call before
\* it returned when that call had the same user_code, and None otherwise
GetTestString ==
    /\ \E user_code \in UserCodes :
          harness' = [op |-> "_get_test_string",
                      user_code |-> user_code,
                      result |-> get_test_string(questions[1], user_code),
                      earlier |-> IF harness.op = "_get_test_string"
                                        /\ harness.user_code = user_code
                                  THEN harness.result
                                  ELSE None]
    /\ UNCHANGED <<ctlVars, viewVars, factory, classified, map>>

SpecHarness == HarnessInit /\ [][GetTestString]_vars

(***************************************************************************)
(* check_test applied to a captured output, as in                          *)
(* WriteCodeQuestion.check_response.  The outputs are reports in the       *)
(* layout of unittest: some lines, then "Ran 1 test in", an elapsed time   *)
(* of up to MaxElapsed characters (digits, a point, a letter or a space)   *)
(* and "s", an empty line, the verdict line, and what may follow it.       *)
(***************************************************************************)
RanLine ==
    <<"R", "a", "n", " ", "1", " ", "t", "e", "s", "t", " ", "i", "n", " ">>

VerdictOK == <<"O", "K", "\n">>

VerdictFailed ==
    <<"F", "A", "I", "L", "E", "D", " ", "(", "f", "a", "i", "l", "u", "r",
      "e", "s", "=", "1", ")", "\n">>

ElapsedChars == {"0", ".", "x", " "}

Elapsed == UNION {[1..n -> ElapsedChars] : n \in 0..MaxElapsed}

Leads == {<<>>, <<".", "\n">>}

Verdicts == {VerdictOK, VerdictFailed}

Tails == {<<>>, <<"\n">>, <<"x">>}

Report(lead, elapsed, verdict, tail) ==
    lead \o RanLine \o elapsed \o <<"s", "\n", "\n">> \o verdict \o tail

\* An output that eval_python returned, not classified yet
ClassifierInit ==
    /\ levels = <<>>
    /\ ret = Call("__init__")
    /\ questions = <<>>
    /\ views = <<>>
    /\ tasks = <<>>
    /\ last = <<>>
    /\ hint_requests = <<>>
    /\ failed = {}
    /\ factory = <<>>
    /\ harness = <<>>
    /\ \E lead \in Leads, elapsed \in Elapsed, verdict \in Verdicts, tail \in Tails :
          classified = [op |-> "eval_python", elapsed |-> elapsed, verdict |-> verdict,
                        tail |-> tail,
                        output |-> Report(lead, elapsed, verdict, tail),
                        result |-> None]
    /\ map = <<>>

\* return bool(check_test.search(output))
CheckTest ==
    /\ classified.op = "eval_python"
    /\ classified' = [classified EXCEPT !.op = "check_test",
                                        !.result = check_test_search(classified.output)]
    /\ UNCHANGED <<ctlVars, viewVars, factory, harness, map>>

SpecClassifier == ClassifierInit /\ [][CheckTest]_vars

(***************************************************************************)
(* bot/map.py: validate_coord and Map.move.  map_z is the dict loaded from *)
(* map_z.json: its keys are the decimal texts of the x coordinates, its    *)
(* values dicts from the decimal texts of the y coordinates to a height.   *)
(* The maps here are the non-empty sets of cells with x in 0..MaxMapX and  *)
(* y in 0..1, every cell at height 0.                                      *)
(***************************************************************************)
Digit(d) ==
    CASE d = 0 -> "0" [] d = 1 -> "1" [] d = 2 -> "2" [] d = 3 -> "3" [] d = 4 -> "4"
      [] d = 5 -> "5" [] d = 6 -> "6" [] d = 7 -> "7" [] d = 8 -> "8" [] d = 9 -> "9"

\* str(n) of an int
RECURSIVE Str(_)
Str(n) ==
    IF n < 0 THEN "-" \o Str(-n)
    ELSE IF n < 10 THEN Digit(n)
         ELSE Str(n \div 10) \o Digit(n % 10)

Cells == (0..MaxMapX) \X (0..1)

MapZ(cells) ==
    [x \in {Str(cell[1]) : cell \in cells} |->
        [y \in {Str(cell[2]) : cell \in {c \in cells : Str(c[1]) = x}} |-> 0]]

validate_coord(map_z, coord) ==
    ~(\/ Str(coord[1]) \notin DOMAIN map_z
      \/ Str(coord[2]) \notin DOMAIN map_z[Str(coord[1])])

\* the keyword arguments of move in the four button callbacks
Moves == {<<-1, 0>>, <<0, -1>>, <<1, 0>>, <<0, 1>>}

move_unchecked(x, y) ==
    LET new_coord == <<map.position[1] + x, map.position[2] + y>>
    IN map' = [map EXCEPT !.position = new_coord,
                          !.call = [x |-> x, y |-> y, navigate |-> TRUE]]

\* Map.move, with navigate up to its await of edit_message
move(x, y) ==
    LET new_coord == <<map.position[1] + x, map.position[2] + y>>
    IN IF validate_coord(map.map_z, new_coord)
       THEN map' = [map EXCEPT !.position = new_coord,
                               !.call = [x |-> x, y |-> y, navigate |-> TRUE]]
       ELSE map' = [map EXCEPT !.call = [x |-> x, y |-> y, navigate |-> FALSE]]

\* Map(position, user) on a coordinate of the map
MapInit ==
    /\ levels = <<>>
    /\ ret = Call("__init__")
    /\ questions = <<>>
    /\ views = <<>>
    /\ tasks = <<>>
    /\ last = <<>>
    /\ hint_requests = <<>>
    /\ failed = {}
    /\ factory = <<>>
    /\ harness = <<>>
    /\ classified = <<>>
    /\ \E cells \in SUBSET Cells \ {{}} : \E position \in cells :
          map = [map_z |-> MapZ(cells), position |-> position,
                 call |-> [x |-> 0, y |-> 0, navigate |-> FALSE]]

Move ==
    /\ \E m \in Moves : move(m[1], m[2])
    /\ UNCHANGED <<ctlVars, viewVars, pureVars>>

SpecMap == MapInit /\ [][Move]_vars

(***************************************************************************)
(* Claims about the level registry (checked under SpecController).         *)
(***************************************************************************)
Registered(d, level_id) == \E i \in 1..Len(d) : d[i].key = level_id

AtPosition(d, position) == {i \in 1..Len(d) : d[i].value.map_position = position}

\* C1: add_level(level) fails with ValueError when level.id is already
\* registered, and also when level.map_position is the position of an
\* already-registered level (even under another id); in both cases the
\* registry is exactly what it was before the call.
C1_ConflictRejected ==
    [][(/\ ret'.op = "add_level"
        /\ \/ Registered(levels, ret'.level[1].id)
           \/ AtPosition(levels, ret'.level[1].map_position) # {})
       => (ret'.outcome = "ValueError" /\ levels' = levels)]_vars

\* C1 witness: a level with a fresh id was rejected because its position is
\* the position of a level registered under another id.
C1_Witness ==
    /\ ret.op = "add_level"
    /\ ret.outcome = "ValueError"
    /\ ~Registered(levels, ret.level[1].id)
    /\ AtPosition(levels, ret.level[1].map_position) # {}

\* C2: after any sequence of add_level calls on an initially empty
\* Controller, no two registered levels have the same id or the same map
\* position, and every level is stored under the key equal to its own id.
C2_RegistryUnique ==
    /\ \A i, j \in 1..Len(levels) :
          i # j => /\ levels[i].key # levels[j].key
                   /\ levels[i].value.id # levels[j].value.id
                   /\ levels[i].value.map_position # levels[j].value.map_position
    /\ \A i \in 1..Len(levels) : levels[i].key = levels[i].value.id

\* C2 witness: two levels are registered and the last add_level was rejected.
C2_Witness ==
    /\ Len(levels) = 2
    /\ ret.op = "add_level"
    /\ ret.outcome = "ValueError"

\* What get_level_map(p) hands back, given the registry it ran on.
C3_Result ==
    ret.op = "get_level_map" =>
        IF AtPosition(levels, ret.position[1]) # {}
        THEN /\ ret.outcome = "ok"
             /\ \A i \in AtPosition(levels, ret.position[1]) : ret.value = <<levels[i].value>>
        ELSE /\ ret.outcome = "ValueError"
             /\ ret.value = <<>>

\* C3: get_level_map(p) returns the one registered level whose position is p
\* when there is one, fails with ValueError when there is none, and in
\* neither case changes the registry.
C3_GetLevelMap ==
    [][ret'.op = "get_level_map" => (levels' = levels /\ C3_Result')]_vars

\* C3 witness: with two levels registered, the lookup returned the level
\* that was registered second.
C3_Witness ==
    /\ ret.op = "get_level_map"
    /\ Len(levels) = 2
    /\ ret.value = <<levels[2].value>>

\* C4: play_level(level_id), when level_id is registered, triggers the run
\* of the level registered under level_id and of no other registered level.
C4_PlayRunsOnlyIdentified ==
    (ret.op = "play_level" /\ Registered(levels, ret.use_level)) =>
        /\ Len(ret.ran) = 1
        /\ \A i \in 1..Len(levels) : levels[i].key = ret.use_level => ret.ran = <<levels[i].value>>

\* C5: play_level(level_id) fails with a not-found error when level_id is
\* not registered (also on an empty registry), and then no run is triggered.
C5_PlayUnknownFails ==
    (ret.op = "play_level" /\ ~Registered(levels, ret.use_level)) =>
        /\ ret.outcome = "ValueError"
        /\ ret.ran = <<>>

(***************************************************************************)
(* Claims about the question views (checked under Spec).                   *)
(***************************************************************************)
Min(a, b) == IF a < b THEN a ELSE b

ViewIds == 1..Len(views)

Busy(v) == \E t \in Suspended : t.view = v

\* C6: a question's unlocked-hint count starts at 0, never decreases and
\* never exceeds the number of hints: after N get_a_hint requests on a
\* question with H hints it is min(N, H), and a request made at the cap
\* changes nothing of the question or the views and raises no error.
C6_Count ==
    \A q \in 1..Len(questions) :
        /\ questions[q].unlocked_hints = Min(hint_requests[q], Len(questions[q].hints))
        /\ questions[q].unlocked_hints \in 0..Len(questions[q].hints)

C6_HintCount ==
    /\ \A q \in 1..Len(questions) : questions[q].unlocked_hints = 0
    /\ [][/\ C6_Count'
          /\ \A q \in 1..Len(questions) :
                /\ questions'[q].unlocked_hints >= questions[q].unlocked_hints
                /\ (/\ hint_requests'[q] = hint_requests[q] + 1
                    /\ questions[q].unlocked_hints = Len(questions[q].hints))
                   => /\ questions' = questions
                      /\ views' = views
                      /\ last'.action = "get_a_hint"
                      /\ last'.response.kind = "send_message"]_vars

\* C6 witness: a question with at least one hint got more requests than it
\* has hints.
C6_Witness ==
    /\ last.action = "get_a_hint"
    /\ \E q \in 1..Len(questions) :
          /\ Len(questions[q].hints) >= 1
          /\ hint_requests[q] > Len(questions[q].hints)

\* C7: on a submission, if check_response returns true the status becomes
\* CORRECT, the triggering interaction is recorded and the view is stopped
\* (once on_success resumes from response.defer()); if it returns false the
\* status becomes INCORRECT, the "try again" message is sent, the view is
\* not stopped by it and so still accepts a further submission.
C7_Submission ==
    [][/\ (last'.action \in {"callback", "check_response"} /\ last'.result = "True")
            => /\ views'[last'.view].status = "CORRECT"
               /\ views'[last'.view].next_question_interaction =
                    (IF last'.action = "callback" THEN "option" ELSE "CodeModal")
               /\ \E t \in BagToSet(tasks') :
                        t.view = last'.view /\ t.pc = "on_success_defer"
       /\ last'.action = "on_success" => views'[last'.view].stopped
       /\ (last'.action \in {"callback", "check_response"} /\ last'.result = "False")
            => /\ views'[last'.view].status = "INCORRECT"
               /\ last'.response = IncorrectMessage
               /\ views'[last'.view].stopped = views[last'.view].stopped
               /\ views'[last'.view].next_question_interaction =
                    views[last'.view].next_question_interaction]_vars

\* C7 witness: a submission was graded false and the view is still open.
C7_Witness ==
    /\ last.action = "check_response"
    /\ last.result = "False"
    /\ views[last.view].status = "INCORRECT"
    /\ ~views[last.view].stopped

\* C8 (as claimed): INCORRECT is transient, so whenever a view is open and
\* waiting for the next user action its status is IN_PROGRESS.
C8_WaitingInProgress ==
    \A v \in ViewIds : (~views[v].stopped /\ ~Busy(v)) => views[v].status = "IN_PROGRESS"

\* C8 (amended): INCORRECT is not terminal and is not reset: no step returns
\* a status to IN_PROGRESS once it has left it, and a view that is open and
\* waiting for the next user action has status IN_PROGRESS or INCORRECT.
C8_IncorrectPersists ==
    [][\A v \in ViewIds :
          /\ views[v].status # "IN_PROGRESS" => views'[v].status # "IN_PROGRESS"
          /\ (~views'[v].stopped /\ ~(\E t \in BagToSet(tasks') : t.view = v))
                => views'[v].status \in {"IN_PROGRESS", "INCORRECT"}]_vars

\* C8 witness: a view whose status is still INCORRECT after a later user
\* action (a hint request), open and waiting.
C8_Witness ==
    /\ last.action = "get_a_hint"
    /\ views[last.view].status = "INCORRECT"
    /\ ~views[last.view].stopped
    /\ ~Busy(last.view)

\* C9: when the eval_python call fails during a WriteCode submission the failure
\* is caught, the view's status is IN_PROGRESS afterwards (also after an
\* earlier incorrect attempt) and a "retry later" message is sent.
C9_FailureHandled ==
    (last.action = "check_response" /\ last.result = "raised") =>
        /\ views[last.view].status = "IN_PROGRESS"
        /\ last.response.kind = "send_message"

\* C10: a failure of the eval_python call is never treated as an incorrect answer: then
\* check_response does not return false, and the submission neither sets the
\* status to INCORRECT nor sends the "Incorrect answer" message; it leaves
\* the view as it was.
C10_FailureNotIncorrect ==
    [][(\E t \in Suspended : /\ t.pc = "eval_python"
                             /\ tasks' = Finish(t)
                             /\ last'.result \notin {"True", "False"})
        => /\ last'.action = "check_response"
           /\ last'.result = "raised"
           /\ last'.response # IncorrectMessage
           /\ views' = views]_vars

\* C10 witness: the eval_python call failed in a view whose status is IN_PROGRESS.
C10_Witness ==
    /\ last.action = "check_response"
    /\ last.result = "raised"
    /\ views[last.view].status = "IN_PROGRESS"
    /\ ~views[last.view].stopped

Pressed(v, button, pc) == tasks' = Start(Task(v, button, pc))

Resumed(v, pc) == \E t \in Suspended : t.view = v /\ t.pc = pc /\ tasks' = Finish(t)

\* C12: pressing the quit button of a view whose status is IN_PROGRESS or
\* INCORRECT sets the status to EXITED whatever it was, records the button's
\* interaction as next_question_interaction and (once on_quit resumes from
\* response.defer()) stops the view; check_response is not called: nothing
\* is graded, no task waits for eval_python because of it and the question
\* is left alone.
C12_Quit ==
    [][\A v \in ViewIds :
          /\ (Pressed(v, "quit_button", "on_quit_defer")
                    /\ views[v].status \in {"IN_PROGRESS", "INCORRECT"})
                => /\ views'[v].status = "EXITED"
                   /\ views'[v].next_question_interaction = "quit_button"
                   /\ last' = Step("quit_button", v, "", NoResponse)
                   /\ questions' = questions
          /\ Resumed(v, "on_quit_defer")
                => /\ views'[v].stopped
                   /\ last' = Step("on_quit", v, "", Deferred)
                   /\ questions' = questions
          /\ (views'[v].status = "EXITED"
                    /\ views'[v].next_question_interaction = "quit_button")
                => \/ views'[v].stopped
                   \/ \E t \in BagToSet(tasks') : t.view = v /\ t.pc = "on_quit_defer"]_vars

\* C12 witness: the quit button was pressed, on_quit has resumed and stopped
\* the view, no callback of it is left and the status is EXITED.
C12_Witness ==
    /\ last.action = "on_quit"
    /\ views[last.view].status = "EXITED"
    /\ views[last.view].next_question_interaction = "quit_button"
    /\ views[last.view].stopped
    /\ ~Busy(last.view)

\* C13: CORRECT and EXITED are absorbing: once a view's status is CORRECT or
\* EXITED no later step changes it, be it the return of an eval_python call
\* that was awaited when quit was pressed, a second submission callback in
\* flight, or a quit pressed after a correct answer.
C13_Absorbing ==
    [][\A v \in ViewIds :
          views[v].status \in {"CORRECT", "EXITED"} => views'[v].status = views[v].status]_vars

\* C14: a view owns its hint count and its status: a step of one view (the
\* view of the step is last'.view) changes neither the unlocked-hint count
\* that another view shows nor the other view's status, also when both are
\* views of the same Question, and a new view starts with no hint unlocked.
C14_ViewsIsolated ==
    [][/\ \A v \in ViewIds :
            v # last'.view
                => /\ questions'[views'[v].question].unlocked_hints =
                        questions[views[v].question].unlocked_hints
                   /\ views'[v].status = views[v].status
       /\ Len(views') > Len(views)
            => questions'[views'[Len(views')].question].unlocked_hints = 0]_vars

\* C15: MultipleChoiceQuestion.check_response(option_id) is true exactly when
\* option_id equals the question's answer, and it changes no state: in the
\* callback of the option button option_id the grading is "True" if and
\* only if option_id is the answer of the view's question, and the question
\* (its answer, options and hint count) is what it was.
C15_CheckResponse ==
    [][\A v \in ViewIds, option_id \in OptionIds :
          option_callback(v, option_id)
            => /\ last'.action = "callback"
               /\ last'.result = (IF option_id = questions[views[v].question].answer
                                  THEN "True" ELSE "False")
               /\ questions' = questions]_vars

\* C15 witness: two views of one MultipleChoiceQuestion; an option other
\* than the answer was pressed in one, and the answer has just been pressed
\* in the other.
C15_Witness ==
    /\ last.action = "callback"
    /\ last.result = "True"
    /\ views[last.view].status = "CORRECT"
    /\ \E v \in ViewIds :
          /\ v # last.view
          /\ views[v].question = views[last.view].question
          /\ views[v].status = "INCORRECT"

\* C22: no step of a view (hint request, submission with any outcome, quit)
\* changes the text, hints, options, answer, pre_code or test cases of its
\* question: the only field of a question that changes is unlocked_hints,
\* and it changes only in a hint request.
C22_Frame ==
    [][/\ Len(questions') = Len(questions)
       /\ \A q \in 1..Len(questions) :
            /\ [questions'[q] EXCEPT !.unlocked_hints = 0] =
                    [questions[q] EXCEPT !.unlocked_hints = 0]
            /\ questions'[q].unlocked_hints # questions[q].unlocked_hints
                => /\ last'.action = "get_a_hint"
                   /\ views'[last'.view].question = q
                   /\ hint_requests'[q] = hint_requests[q] + 1]_vars

\* C22 witness: the views of a question with an unlocked hint; one has had an
\* incorrect submission and the other has just been quit.
C22_Witness ==
    /\ last.action = "on_quit"
    /\ views[last.view].status = "EXITED"
    /\ questions[views[last.view].question].unlocked_hints >= 1
    /\ \E v \in ViewIds :
          /\ views[v].question = views[last.view].question
          /\ views[v].status = "INCORRECT"

\* C23: the status of a view becomes CORRECT only in a step of that view in
\* which check_response, called on the view's own question, returned true:
\* a new view is not CORRECT, and no hint request, quit, closed modal,
\* submission graded false or failure of eval_python makes a view CORRECT.
C23_CorrectOnlyByTrue ==
    [][\A v \in 1..Len(views') :
          (views'[v].status = "CORRECT" /\ (v \in ViewIds => views[v].status # "CORRECT"))
            => /\ v \in ViewIds
               /\ last'.view = v
               /\ last'.result = "True"
               /\ \/ /\ last'.action = "callback"
                     /\ questions[views[v].question].type = "multiple_choice"
                     /\ Pressed(v, "option", "on_success_defer")
                  \/ /\ last'.action = "check_response"
                     /\ questions[views[v].question].type = "write_code"
                     /\ \E t \in Suspended :
                            /\ t = Task(v, "submit_button", "eval_python")
                            /\ tasks' = Finish(t) (+)
                                    SetToBag({[t EXCEPT !.pc = "on_success_defer"]})]_vars

\* C23 witness: a view became CORRECT by a submission graded true, after a
\* hint request, next to a view of the same question whose code modal was
\* closed without a submission.
C23_Witness ==
    /\ last.action = "check_response"
    /\ last.result = "True"
    /\ views[last.view].status = "CORRECT"
    /\ hint_requests[views[last.view].question] >= 1
    /\ \E v \in ViewIds :
          /\ views[v].status = "EXITED"
          /\ views[v].next_question_interaction = "None"

\* C24: when the code modal of submit_button finishes without a submission
\* the status of the view becomes EXITED and the view is stopped; neither
\* check_response nor eval_python is called (nothing is graded, no callback
\* comes to wait for eval_python) and next_question_interaction is left as
\* it was, None unless an earlier callback set it.  So a view can be EXITED
\* and stopped with no interaction recorded (the witness).
C24_ModalClosed ==
    [][\A v \in ViewIds :
          Resumed(v, "modal_wait")
            => /\ views'[v].status = "EXITED"
               /\ views'[v].stopped
               /\ views'[v].next_question_interaction = views[v].next_question_interaction
               /\ last' = Step("submit_button", v, "None", NoResponse)
               /\ \A t \in BagToSet(tasks') : t.pc # "eval_python" => t \in Suspended
               /\ \A t \in BagToSet(tasks') :
                    t.pc = "eval_python" => CopiesIn(t, tasks') <= CopiesIn(t, tasks)
               /\ questions' = questions]_vars

\* C24 witness: the code modal of a view was closed without a submission:
\* the view is EXITED and stopped, none of its callbacks is left, and its
\* next_question_interaction is None.
C24_Witness ==
    /\ last = Step("submit_button", last.view, "None", NoResponse)
    /\ views[last.view].status = "EXITED"
    /\ views[last.view].stopped
    /\ views[last.view].next_question_interaction = "None"
    /\ ~Busy(last.view)

(***************************************************************************)
(* Claims about a view after a failure of eval_python (checked under       *)
(* SpecWriteCode).                                                         *)
(***************************************************************************)
\* C11: a WriteCode view one of whose submissions met a failure of the
\* eval_python call stays open: the failure leaves the view as it was, not
\* stopped by it, and a later submission in the same view that is graded
\* true still sets the status to CORRECT and records its interaction.
C11_RetryAfterFailure ==
    [][\A v \in ViewIds :
          /\ (last'.action = "check_response" /\ last'.result = "raised"
                    /\ last'.view = v /\ tasks' # tasks)
                => /\ v \in failed'
                   /\ views'[v] = views[v]
          /\ (v \in failed /\ last'.action = "check_response" /\ last'.result = "True"
                    /\ last'.view = v /\ tasks' # tasks)
                => /\ ~views[v].stopped => ~views'[v].stopped
                   /\ views'[v].status = "CORRECT"
                   /\ views'[v].next_question_interaction = "CodeModal"]_vars

\* C11 witness: a view that was open and IN_PROGRESS after a failure of
\* eval_python, and whose later submission was graded true: it is CORRECT.
C11_Witness ==
    /\ last.action = "check_response"
    /\ last.result = "True"
    /\ last.view \in failed
    /\ views[last.view].status = "CORRECT"

(***************************************************************************)
(* Claims about question_factory (checked under SpecFactory).              *)
(***************************************************************************)
Tagged(data, tag) == "type" \in DOMAIN data /\ data["type"] = tag

FieldsOf(data) == DOMAIN data \ {"type"}

\* C16: question_factory returns a MultipleChoiceQuestion for the tag
\* "multiple_choice" and a WriteCodeQuestion for the tag "write_code" when
\* the required fields are present, and fails with one and the same kind of
\* error for an unknown tag, for a missing tag and for a known tag whose
\* required fields are absent (the kind is that of the unknown tag, which
\* is ValueError).
C16_Factory ==
    factory.op = "question_factory" =>
        LET data == factory.question_data
            result == factory.result
        IN /\ (Tagged(data, "multiple_choice")
                    /\ FieldsOf(data) = {"question", "hints", "options", "answer"})
                => /\ result.raised = "None"
                   /\ result.value.type = "multiple_choice"
                   /\ result.value.answer = data["answer"]
           /\ (Tagged(data, "write_code")
                    /\ FieldsOf(data) \in {{"question", "hints", "test_cases"},
                                           {"question", "hints", "test_cases", "pre_code"}})
                => /\ result.raised = "None"
                   /\ result.value.type = "write_code"
                   /\ result.value.test_cases = data["test_cases"]
           /\ (\/ "type" \notin DOMAIN data
               \/ data["type"] \notin {"multiple_choice", "write_code"}
               \/ /\ Tagged(data, "multiple_choice")
                  /\ ~({"question", "hints", "options", "answer"} \subseteq FieldsOf(data))
               \/ /\ Tagged(data, "write_code")
                  /\ ~({"question", "hints", "test_cases"} \subseteq FieldsOf(data)))
                => result.raised = "ValueError"

(***************************************************************************)
(* Claims about the harness (checked under SpecHarness).                   *)
(***************************************************************************)
Built == harness.op = "_get_test_string"

Occurrences(text, literal) == {i \in 1..Len(text) : IsAt(text, i, literal)}

Nth(positions, k) == CHOOSE p \in positions : Cardinality({q \in positions : q < p}) = k - 1

\* the last position of the line of text that position p is in
LineEnd(text, p) ==
    IF \E q \in p..Len(text) : text[q] = "\n"
    THEN (CHOOSE q \in p..Len(text) :
            text[q] = "\n" /\ \A r \in p..(q - 1) : text[r] # "\n") - 1
    ELSE Len(text)

\* the part of the harness from its class declaration on
ClassPart(text) ==
    LET start == Nth(Occurrences(text, ClassLine), Cardinality(Occurrences(text, ClassLine)))
    IN SubSeq(text, start, Len(text))

DefKeyword == <<"d", "e", "f", " ">>

AssertEqualName == <<"a", "s", "s", "e", "r", "t", "E", "q", "u", "a", "l">>

\* C17: for a WriteCodeQuestion with at least one test case and any submitted
\* code, the test class of the harness has exactly one method and exactly one
\* equality assertion per test case; the assertions are in the order of the
\* test cases, and the k-th one holds the input text and then the output
\* text of the k-th test case, character for character.
C17_Assertions ==
    (Built /\ questions[1].test_cases # <<>>) =>
        LET test_cases == questions[1].test_cases
            class == ClassPart(harness.result)
            asserts == Occurrences(class, AssertEqualName)
        IN /\ Cardinality(Occurrences(harness.result, ClassLine)) = 1
           /\ Cardinality(Occurrences(class, DefKeyword)) = 1
           /\ Cardinality(asserts) = Len(test_cases)
           /\ \A k \in 1..Len(test_cases) :
                LET p == Nth(asserts, k)
                    end == LineEnd(class, p)
                IN \E i \in p..end :
                      /\ IsAt(class, i, test_cases[k].input)
                      /\ \E j \in (i + Len(test_cases[k].input))..end :
                            /\ IsAt(class, j, test_cases[k].output)
                            /\ j + Len(test_cases[k].output) - 1 <= end

\* C17 witness: a harness built for two different test cases and the code
\*   def add(a,b): return a+b
C17_Witness ==
    /\ Built
    /\ harness.user_code = AddCode
    /\ Len(questions[1].test_cases) = 2
    /\ questions[1].test_cases[1] # questions[1].test_cases[2]

\* the lines of a text, without their line breaks
Lines(text) ==
    LET starts == {1} \cup {i + 1 : i \in {j \in 1..Len(text) : text[j] = "\n"}}
    IN [k \in 1..Cardinality(starts) |->
            SubSeq(text, Nth(starts, k), LineEnd(text, Nth(starts, k)))]

RECURSIVE Stripped(_)
Stripped(line) ==
    IF line # <<>> /\ Head(line) = " " THEN Stripped(Tail(line)) ELSE line

\* the lines of the harness that hold an assertion, in order
AssertLines(text) ==
    LET lines == Lines(text)
        holding == {k \in DOMAIN lines :
                        Occurrences(lines[k], <<"a", "s", "s", "e", "r", "t">>) # {}}
    IN [j \in 1..Cardinality(holding) |-> lines[Nth(holding, j)]]

AddExample ==
    /\ Built
    /\ questions[1].pre_code = None
    /\ questions[1].test_cases = <<AddCase>>
    /\ harness.user_code = AddCode

NotBlank(character) == character \notin {" ", "\t"}

\* a text without its spaces and tabs
Squeezed(text) == SelectSeq(text, NotBlank)

\* C19: the harness is, in this order, the import line, pre_code as it is
\* (nothing when pre_code is None) with the submitted code starting right
\* after it, the submitted code, the class declaration with its test method
\* and then its assertions, and last the unittest.main() call; a second
\* call with the same question and code returns the same text.
C19_Order ==
    Built =>
        LET text == harness.result
            user_code == harness.user_code
            pre_code == IF questions[1].pre_code = None THEN <<>> ELSE questions[1].pre_code
            classes == Occurrences(text, ClassLine)
            pre_at == Len(ImportLine) + 1
            code_at == pre_at + Len(pre_code)
            class_at == Nth(classes, Cardinality(classes))
            method_at == class_at + Len(ClassLine)
            main_at == Len(text) - Len(MainLine) + 1
        IN /\ IsAt(text, 1, ImportLine)
           /\ IsAt(text, pre_at, pre_code)
           /\ classes # {}
           /\ code_at <= class_at
           /\ Squeezed(SubSeq(text, code_at, class_at - 1)) = Squeezed(user_code)
           /\ (user_code # <<>> /\ user_code[1] # "\t") => text[code_at] = user_code[1]
           /\ IsAt(text, method_at, MethodLine)
           /\ \A p \in Occurrences(text, AssertEqualName) :
                /\ p >= method_at + Len(MethodLine) + Len(Indentation)
                /\ p < main_at
           /\ IsAt(text, main_at, MainLine)
           /\ harness.earlier # None => harness.earlier = text

\* C19 witness: the harness of a question with a pre_code and a test case,
\* built a second time for the same code, which has a line break in it.
C19_Witness ==
    /\ Built
    /\ questions[1].pre_code \notin {None, <<>>}
    /\ questions[1].test_cases # <<>>
    /\ \E i \in 1..Len(harness.user_code) : harness.user_code[i] = "\n"
    /\ harness.earlier # None

\* the part of the harness between pre_code and the class declaration
EmbeddedCode ==
    LET text == harness.result
        classes == Occurrences(text, ClassLine)
        pre_code == IF questions[1].pre_code = None THEN <<>> ELSE questions[1].pre_code
    IN SubSeq(text, Len(ImportLine) + Len(pre_code) + 1,
              Nth(classes, Cardinality(classes)) - 1)

\* the number of characters between position p of text and the start of
\* its line
Column(text, p) ==
    LET breaks == {q \in 1..(p - 1) : text[q] \in {"\n", "\r"}}
    IN IF breaks = {} THEN p - 1
       ELSE p - 1 - (CHOOSE q \in breaks : \A r \in breaks : r <= q)

\* text from position p on is code from position i on, with a run of spaces
\* for each tab: two spaces when always_two, else the one or two spaces up
\* to the next even column
RECURSIVE Embeds(_, _, _, _, _)
Embeds(text, p, code, i, always_two) ==
    IF i > Len(code) THEN p = Len(text) + 1
    ELSE IF code[i] # "\t"
         THEN /\ p <= Len(text)
              /\ text[p] = code[i]
              /\ Embeds(text, p + 1, code, i + 1, always_two)
         ELSE LET width == IF always_two THEN 2 ELSE 2 - (Column(text, p) % 2)
              IN /\ p + width - 1 <= Len(text)
                 /\ \A k \in p..(p + width - 1) : text[k] = " "
                 /\ Embeds(text, p + width, code, i + 1, always_two)

TabFree(code) == \A i \in 1..Len(code) : code[i] # "\t"

\* C20 (as claimed): in the harness every tab of the submitted code is
\* replaced by exactly two spaces, whatever its column, and a code without
\* a tab is embedded unchanged.
C20_TwoSpaces ==
    Built =>
        /\ Embeds(EmbeddedCode, 1, harness.user_code, 1, TRUE)
        /\ TabFree(harness.user_code) => EmbeddedCode = harness.user_code

\* C20 (amended): in the harness every tab of the submitted code is replaced
\* by the spaces up to the next even column, columns counted from the start
\* of the tab's line within the submitted code: two spaces for a tab at an
\* even column, one space for a tab at an odd column; a code without a tab
\* is embedded unchanged.
C20_TabStops ==
    Built =>
        /\ Embeds(EmbeddedCode, 1, harness.user_code, 1, FALSE)
        /\ TabFree(EmbeddedCode)
        /\ TabFree(harness.user_code) => EmbeddedCode = harness.user_code

\* C20 witness: the submitted code has a tab at an odd column, which one
\* space replaces, and right after it a tab at an even column, which two
\* spaces replace.
C20_Witness ==
    /\ Built
    /\ harness.user_code = <<"x", "\t", "\t">>
    /\ EmbeddedCode = <<"x", " ", " ", " ">>

(***************************************************************************)
(* Claims about check_test (checked under SpecClassifier).                 *)
(***************************************************************************)
Digits(text) == \A i \in 1..Len(text) : text[i] = "0"

\* a decimal with at least one fractional digit: digits, a point, digits
Decimal(text) ==
    \E point \in 2..(Len(text) - 1) :
        /\ text[point] = "."
        /\ Digits(SubSeq(text, 1, point - 1))
        /\ Digits(SubSeq(text, point + 1, Len(text)))

\* C21 (as claimed): check_test classifies an output as true if and only if
\* the output ends with "Ran 1 test in <elapsed>s", an empty line, "OK" and
\* a newline, <elapsed> being a decimal with at least one fractional digit;
\* an output that ends otherwise, as with "FAILED (failures=1)", is
\* classified false.
C21_DecimalTrailer ==
    classified.op = "check_test" =>
        /\ classified.result = (/\ Decimal(classified.elapsed)
                                /\ classified.verdict = VerdictOK
                                /\ classified.tail = <<>>)
        /\ classified.verdict = VerdictFailed => classified.result = FALSE

\* C21 (amended): check_test classifies an output as true if and only if the
\* output ends, or ends but for one more newline, with "Ran 1 test in
\* <elapsed>s", an empty line, "OK" and a newline, <elapsed> being one or
\* more characters none of which is whitespace (it need not be a decimal);
\* an output that ends otherwise, as with "FAILED (failures=1)", is
\* classified false, which is a value returned and not an error.
C21_Trailer ==
    classified.op = "check_test" =>
        /\ classified.result = (/\ classified.elapsed # <<>>
                                /\ \A i \in 1..Len(classified.elapsed) :
                                        classified.elapsed[i] # " "
                                /\ classified.verdict = VerdictOK
                                /\ classified.tail \in {<<>>, <<"\n">>})
        /\ classified.verdict = VerdictFailed => classified.result = FALSE
        /\ classified.result \in BOOLEAN

\* C21 witness: an output classified true whose elapsed time is not a
\* decimal and after whose trailer one more newline comes.
C21_Witness ==
    /\ classified.op = "check_test"
    /\ classified.result = TRUE
    /\ ~Decimal(classified.elapsed)
    /\ classified.tail = <<"\n">>

(***************************************************************************)
(* Claims about Map.move (checked under SpecMap).                          *)
(***************************************************************************)
\* C25: a Map created on a coordinate that validate_coord accepts keeps such
\* a position through any sequence of moves left, up, right and down: a
\* move to a coordinate that validate_coord accepts sets the position to it
\* and navigates; a move to any other coordinate leaves the position as it
\* was and does not call navigate.
C25_PositionValid ==
    /\ validate_coord(map.map_z, map.position)
    /\ [][LET target == <<map.position[1] + map'.call.x, map.position[2] + map'.call.y>>
          IN /\ validate_coord(map'.map_z, map'.position)
             /\ map'.map_z = map.map_z
             /\ <<map'.call.x, map'.call.y>> \in Moves
             /\ IF validate_coord(map.map_z, target)
                THEN map'.position = target /\ map'.call.navigate
                ELSE map'.position = map.position /\ ~map'.call.navigate]_vars

\* C25 witness: a move off the map was ignored: the position is on the
\* left edge and the move was to the left, or on the upper edge and the
\* move was up; navigate was not called.
C25_Witness ==
    /\ ~map.call.navigate
    /\ validate_coord(map.map_z, map.position)
    /\ \/ map.call.x = -1 /\ map.position[1] = 0
       \/ map.call.y = -1 /\ map.position[2] = 0

====
